---- MODULE Spec2Model ----
(***************************************************************************)
(* The Billboard chart scraper of 1a_data_billboard.ipynb: date generation *)
(* (generate_dates), the per-week fetch and parse (scrape_week), the       *)
(* Pool.imap fan-out of scrape_billboard, and the notebook cells that      *)
(* flatten and aggregate the scraped weeks (tracks_df).                    *)
(*                                                                         *)
(* A Python str is a sequence of one-character strings, so that parsing,   *)
(* formatting, slicing, strip, join and split are computed, not assumed.   *)
(***************************************************************************)
EXTENDS Integers, Sequences, FiniteSets, TLC

VARIABLES
    first_week,          \* argument of scrape_billboard (notebook cell, line 206)
    last_week,           \* argument of scrape_billboard (notebook cell, line 209)
    pc,                  \* position of the notebook's main process
    err,                 \* the exception that ended the run, "none" while there is none
    date_list,           \* scrape_billboard's date_list
    url_list,            \* scrape_billboard's url_list
    task,                \* Pool: task i is "queued", "running" or "done"
    net,                 \* what the server does with the request of task i
    requests_sent,       \* number of requests.get calls issued for task i
    items,               \* IMapIterator._items: results ready for next(), in order
    index,               \* IMapIterator._index: next position to release
    unsorted,            \* IMapIterator._unsorted: results that arrived early
    chart_data,          \* the list that list(...) is building
    pool,                \* "none", "running" or "terminated"
    billboard_responses, \* value returned by scrape_billboard, Unset before
    billboard_df,        \* pd.DataFrame(billboard_responses, columns=...)
    tracks_df,           \* the flattened, then aggregated, table
    finished             \* history: the tasks in the order their fetches ended

vars == <<first_week, last_week, pc, err, date_list, url_list, task, net,
          requests_sent, items, index, unsorted, chart_data, pool,
          billboard_responses, billboard_df, tracks_df, finished>>

-----------------------------------------------------------------------------
(* Bounds of the model *)

\* largest distance in days between the two input dates
MaxDays == 18
\* how many days last_week may lie after first_week (an inverted range)
MaxInverted == 8
\* number of worker processes of the pool in the model (the notebook uses 25)
PoolSize == 2
\* SpecAgg: largest number of chart items over all pages together
MaxItems == 2
\* SpecAgg: largest number of title, artist and rank tags that the chart items
\* of all pages together may lack
MaxMissing == 3

-----------------------------------------------------------------------------
(* Characters and strings *)

\* the characters the model uses, in code-point order
Alphabet == <<" ", "+", ",", "-", "/", "0", "1", "2", "3", "4", "5", "6", "7",
              "8", "9", ":", "A", "B", "a", "b">>

\* stand-in for ord(c): order-isomorphic to the code points of Alphabet
CharCode(c) == CHOOSE i \in 1..Len(Alphabet) : Alphabet[i] = c

Digits == <<"0", "1", "2", "3", "4", "5", "6", "7", "8", "9">>

IsDigit(c) == \E i \in 1..10 : Digits[i] = c

DigitVal(c) == (CHOOSE i \in 1..10 : Digits[i] = c) - 1

DigitChar(n) == Digits[n + 1]

\* Python's < on str: lexicographic by code point, a proper prefix is smaller
RECURSIVE StrLess(_, _)
StrLess(s, t) ==
    IF t = <<>> THEN FALSE
    ELSE IF s = <<>> THEN TRUE
    ELSE IF Head(s) # Head(t) THEN CharCode(Head(s)) < CharCode(Head(t))
    ELSE StrLess(Tail(s), Tail(t))

IsSpace(c) == c = " "

RECURSIVE LStrip(_)
LStrip(s) == IF s # <<>> /\ IsSpace(Head(s)) THEN LStrip(Tail(s)) ELSE s

RECURSIVE RStrip(_)
RStrip(s) ==
    IF s # <<>> /\ IsSpace(s[Len(s)]) THEN RStrip(SubSeq(s, 1, Len(s) - 1)) ELSE s

\* str.strip()
Strip(s) == RStrip(LStrip(s))

\* sep.join(strs)
RECURSIVE Join(_, _)
Join(sep, strs) ==
    IF strs = <<>> THEN <<>>
    ELSE IF Len(strs) = 1 THEN strs[1]
    ELSE strs[1] \o sep \o Join(sep, Tail(strs))

\* s.split(c) for a one-character separator: always at least one piece
RECURSIVE SplitFrom(_, _, _)
SplitFrom(s, c, piece) ==
    IF s = <<>> THEN <<piece>>
    ELSE IF Head(s) = c THEN <<piece>> \o SplitFrom(Tail(s), c, <<>>)
    ELSE SplitFrom(Tail(s), c, Append(piece, Head(s)))

Split(s, c) == SplitFrom(s, c, <<>>)

\* s[-n:]
LastChars(s, n) == IF Len(s) <= n THEN s ELSE SubSeq(s, Len(s) - n + 1, Len(s))

-----------------------------------------------------------------------------
(* Dates: datetime.strptime(s, '%Y-%m-%d'), date arithmetic, strftime *)

IsLeap(y) == y % 4 = 0 /\ (y % 100 # 0 \/ y % 400 = 0)

DaysInMonth(y, m) ==
    IF m = 2 THEN (IF IsLeap(y) THEN 29 ELSE 28)
    ELSE IF m \in {4, 6, 9, 11} THEN 30 ELSE 31

\* days before January 1st of year y
DaysBeforeYear(y) ==
    LET z == y - 1 IN z * 365 + z \div 4 - z \div 100 + z \div 400

RECURSIVE DaysBeforeMonth(_, _)
DaysBeforeMonth(y, m) ==
    IF m = 1 THEN 0 ELSE DaysBeforeMonth(y, m - 1) + DaysInMonth(y, m - 1)

\* date.toordinal(): January 1st of year 1 is day 1
ToOrdinal(y, m, d) == DaysBeforeYear(y) + DaysBeforeMonth(y, m) + d

\* the calendar date of an ordinal
FromOrdinal(n) ==
    LET y == CHOOSE yy \in (n \div 366)..(n \div 365 + 1) :
                 DaysBeforeYear(yy) < n /\ n <= DaysBeforeYear(yy + 1)
        r == n - DaysBeforeYear(y)
        m == CHOOSE mm \in 1..12 :
                 DaysBeforeMonth(y, mm) < r
                 /\ r <= DaysBeforeMonth(y, mm) + DaysInMonth(y, mm)
    IN  [y |-> y, m |-> m, d |-> r - DaysBeforeMonth(y, m)]

\* value of the one or two digit characters of a field
FieldVal(f) ==
    IF Len(f) = 1 THEN DigitVal(f[1]) ELSE 10 * DigitVal(f[1]) + DigitVal(f[2])

\* length matched at position p by the directive %m: 1[0-2]|0[1-9]|[1-9]
MonthMatch(s, p) ==
    IF p + 1 <= Len(s) /\ s[p] = "1" /\ s[p + 1] \in {"0", "1", "2"} THEN 2
    ELSE IF p + 1 <= Len(s) /\ s[p] = "0" /\ IsDigit(s[p + 1]) /\ s[p + 1] # "0" THEN 2
    ELSE IF p <= Len(s) /\ IsDigit(s[p]) /\ s[p] # "0" THEN 1
    ELSE 0

\* length matched at position p by the directive %d:
\* 3[01]|[12]\d|0[1-9]|[1-9]| [1-9]
DayMatch(s, p) ==
    IF p + 1 <= Len(s) /\ s[p] = "3" /\ s[p + 1] \in {"0", "1"} THEN 2
    ELSE IF p + 1 <= Len(s) /\ s[p] \in {"1", "2"} /\ IsDigit(s[p + 1]) THEN 2
    ELSE IF p + 1 <= Len(s) /\ s[p] = "0" /\ IsDigit(s[p + 1]) /\ s[p + 1] # "0" THEN 2
    ELSE IF p <= Len(s) /\ IsDigit(s[p]) /\ s[p] # "0" THEN 1
    ELSE IF p + 1 <= Len(s) /\ s[p] = " " /\ IsDigit(s[p + 1]) /\ s[p + 1] # "0" THEN 2
    ELSE 0

\* datetime.strptime(s, '%Y-%m-%d'): [ok |-> TRUE, ord |-> ordinal] or
\* [ok |-> FALSE] where Python raises ValueError (no match, unconverted data,
\* year 0, day out of range for the month)
BadDate == [ok |-> FALSE, ord |-> 0]

strptime(s) ==
    IF ~(Len(s) >= 5 /\ (\A i \in 1..4 : IsDigit(s[i])) /\ s[5] = "-")
    THEN BadDate
    ELSE
      LET ml == MonthMatch(s, 6) IN
      IF ml = 0 \/ Len(s) < 6 + ml \/ s[6 + ml] # "-" THEN BadDate
      ELSE
        LET dp == 7 + ml
            dl == DayMatch(s, dp)
        IN
        IF dl = 0 \/ dp + dl - 1 # Len(s) THEN BadDate
        ELSE
          LET y == 1000 * DigitVal(s[1]) + 100 * DigitVal(s[2])
                   + 10 * DigitVal(s[3]) + DigitVal(s[4])
              m == FieldVal(SubSeq(s, 6, 5 + ml))
              d == FieldVal(LStrip(SubSeq(s, dp, Len(s))))
          IN
          IF y < 1 \/ d > DaysInMonth(y, m) THEN BadDate
          ELSE [ok |-> TRUE, ord |-> ToOrdinal(y, m, d)]

\* two decimal digits, zero padded
TwoDigits(n) == <<DigitChar(n \div 10), DigitChar(n % 10)>>

\* week.strftime('%Y-%m-%d') for a year of four digits
strftime(n) ==
    LET c == FromOrdinal(n) IN
    <<DigitChar(c.y \div 1000), DigitChar((c.y \div 100) % 10),
      DigitChar((c.y \div 10) % 10), DigitChar(c.y % 10)>>
    \o <<"-">> \o TwoDigits(c.m) \o <<"-">> \o TwoDigits(c.d)

\* timedelta(days = 7)
interval == 7

\* the while loop of generate_dates
RECURSIVE GenLoop(_, _, _, _)
GenLoop(week, i, weeks, alldates) ==
    IF i < weeks
    THEN GenLoop(week - interval, i + 1, weeks, Append(alldates, strftime(week)))
    ELSE alldates

\* generate_dates(first_week, weeks), first_week already known to parse
\* mutant of generate_dates: one more week, so that the range ends at last_week
generate_dates_inclusive(fw, weeks) ==
    GenLoop(strptime(fw).ord, 0, weeks + 1, <<>>)

generate_dates(fw, weeks) == GenLoop(strptime(fw).ord, 0, weeks, <<>>)

\* mutant of RoundWeeks: the quotient is rounded up
CeilWeeks(days) == IF days >= 0 THEN (days + 6) \div 7 ELSE -((-days) \div 7)

\* int(round(days / 7)): Python 3 rounds to the nearest integer, halves to even;
\* days / 7 is never a half, so only the nearest-integer rule applies
RoundWeeks(days) ==
    IF days >= 0 THEN (2 * days + 7) \div 14 ELSE -((2 * (-days) + 7) \div 14)

\* n_weeks of scrape_billboard
NWeeks(fw, lw) == RoundWeeks(strptime(fw).ord - strptime(lw).ord)

base_url == <<"h","t","t","p","s",":","/","/","w","w","w",".","b","i","l","l",
              "b","o","a","r","d",".","c","o","m","/","c","h","a","r","t","s",
              "/","c","o","u","n","t","r","y","-","s","o","n","g","s","/">>

\* url_list = [url + week for week in date_list]
UrlList(url, dates) == [i \in 1..Len(dates) |-> url \o dates[i]]

-----------------------------------------------------------------------------
(* Pages and scrape_week *)

TitleClass == "chart-list-item__title-text"
ArtistClass == "chart-list-item__artist"
RankClass == "chart-list-item__rank"

\* soup.find_all(class_ = cls): the tags carrying the class, in document order
find_all(page, cls) ==
    LET Has(e) == cls \in e.classes IN SelectSeq(page, Has)

\* [tag.text.strip() for tag in tags]
StrippedTexts(tags) == [i \in 1..Len(tags) |-> Strip(tags[i].text)]

\* mutant of WeeksLen: a page without titles still gets one week entry
WeeksLenAtLeastOne(songlist, artistlist, rankslist) ==
    IF Len(songlist) = 0 THEN 1 ELSE Len(songlist)

\* the length of songlist that weekslist is built with
WeeksLen(songlist, artistlist, rankslist) == Len(songlist)

\* the body of scrape_week once requests.get(url) has returned the page:
\* [songlist, artistlist, rankslist, weekslist]
scrape_week(url, page) ==
    LET songlist == StrippedTexts(find_all(page, TitleClass))
        artistlist == StrippedTexts(find_all(page, ArtistClass))
        rankslist == StrippedTexts(find_all(page, RankClass))
        weekslist == [i \in 1..WeeksLen(songlist, artistlist, rankslist)
                        |-> LastChars(url, 10)]
    IN  <<songlist, artistlist, rankslist, weekslist>>

-----------------------------------------------------------------------------
(* Pool.imap: the ordered result iterator *)

NoResponse == [kind |-> "none", page |-> <<>>]

Success(value) == [ok |-> TRUE, value |-> value, exc |-> "none"]
Failure(exc) == [ok |-> FALSE, value |-> <<>>, exc |-> exc]

\* results parked in _unsorted that can be released once position i is reached
RECURSIVE Release(_, _, _)
Release(its, i, uns) ==
    IF \E u \in uns : u.pos = i
    THEN LET u == CHOOSE v \in uns : v.pos = i
         IN  Release(Append(its, u.res), i + 1, uns \ {u})
    ELSE [items |-> its, index |-> i, unsorted |-> uns]

\* mutant of IMapSet: results are handed out as they arrive
IMapSetOnArrival(its, idx, uns, i, obj) ==
    [items |-> Append(its, obj), index |-> idx + 1, unsorted |-> uns]

\* IMapIterator._set(i, obj), positions counted from 0
IMapSet(its, idx, uns, i, obj) ==
    IF idx = i
    THEN Release(Append(its, obj), idx + 1, uns)
    ELSE [items |-> its, index |-> idx, unsorted |-> uns \cup {[pos |-> i, res |-> obj]}]

-----------------------------------------------------------------------------
(* DataFrames: a frame is its column names and its rows *)

NaN == <<"NaN">>

NoFrame == [columns |-> <<>>, rows |-> <<>>]

ColumnSet(df) == {df.columns[i] : i \in 1..Len(df.columns)}

\* df[name] = values, for a list: [ok, df]. An empty index takes the length of
\* a non-empty list (the columns already there become NaN); otherwise the
\* lengths must agree or pandas raises ValueError.
AssignColumn(df, name, values) ==
    LET cols == IF name \in ColumnSet(df) THEN df.columns ELSE Append(df.columns, name)
        names == ColumnSet(df) \cup {name}
    IN
    IF Len(df.rows) = 0 /\ Len(values) > 0
    THEN [ok |-> TRUE,
          df |-> [columns |-> cols,
                  rows |-> [i \in 1..Len(values) |->
                              [c \in names |-> IF c = name THEN values[i] ELSE NaN]]]]
    ELSE IF Len(values) # Len(df.rows)
    THEN [ok |-> FALSE, df |-> df]
    ELSE [ok |-> TRUE,
          df |-> [columns |-> cols,
                  rows |-> [i \in 1..Len(values) |->
                              [c \in names |-> IF c = name THEN values[i]
                                               ELSE df.rows[i][c]]]]]

\* [item for lst in column for item in lst]
RECURSIVE Chain(_)
Chain(lsts) == IF lsts = <<>> THEN <<>> ELSE Head(lsts) \o Chain(Tail(lsts))

Column(df, name) == [i \in 1..Len(df.rows) |-> df.rows[i][name]]

\* pd.DataFrame(billboard_responses, columns = ['songs','artists','ranks','weeks'])
MakeFrame(responses) ==
    [columns |-> <<"songs", "artists", "ranks", "weeks">>,
     rows |-> [i \in 1..Len(responses) |->
                 [songs |-> responses[i][1], artists |-> responses[i][2],
                  ranks |-> responses[i][3], weeks |-> responses[i][4]]]]

\* the four assignments of the flattening cell, stopping at the first that raises
FlattenFrame(bdf) ==
    LET a1 == AssignColumn(NoFrame, "title", Chain(Column(bdf, "songs")))
        a2 == AssignColumn(a1.df, "artist", Chain(Column(bdf, "artists")))
        a3 == AssignColumn(a2.df, "rank", Chain(Column(bdf, "ranks")))
        a4 == AssignColumn(a3.df, "week", Chain(Column(bdf, "weeks")))
    IN  IF ~a1.ok THEN a1
        ELSE IF ~a2.ok THEN a2
        ELSE IF ~a3.ok THEN a3
        ELSE a4

ToLower(c) == IF c = "A" THEN "a" ELSE IF c = "B" THEN "b" ELSE c

Lower(str) == [i \in 1..Len(str) |-> ToLower(str[i])]

\* mutant of RowKey: the key ignores case
RowKeyIgnoringCase(row) == <<Lower(row.title), Lower(row.artist)>>

\* the grouping key of a row
RowKey(row) == <<row.title, row.artist>>

\* mutant of KeyLess: the group keys in descending order
KeyGreater(k1, k2) ==
    StrLess(k2[1], k1[1]) \/ (k1[1] = k2[1] /\ StrLess(k2[2], k1[2]))

\* order of the group keys: tuples of str compare lexicographically
KeyLess(k1, k2) ==
    StrLess(k1[1], k2[1]) \/ (k1[1] = k2[1] /\ StrLess(k1[2], k2[2]))

\* the keys in ascending order (groupby sorts the group keys)
RECURSIVE SortedKeys(_)
SortedKeys(keys) ==
    IF keys = {} THEN <<>>
    ELSE LET least == CHOOSE k \in keys : \A o \in keys \ {k} : KeyLess(k, o)
         IN  <<least>> \o SortedKeys(keys \ {least})

\* mutant of GroupRows: the rows of a group in reverse order
GroupRowsReversed(df, key) ==
    LET In(row) == RowKey(row) = key
        sel == SelectSeq(df.rows, In)
    IN  [i \in 1..Len(sel) |-> sel[Len(sel) + 1 - i]]

\* the rows of one group, in the order they have in the frame
GroupRows(df, key) ==
    LET In(row) == RowKey(row) = key IN SelectSeq(df.rows, In)

\* df.groupby(['title','artist'])['week'].apply(','.join).reset_index(name='weeks')
\* rows with a NaN key belong to no group
GroupByFrame(df) ==
    LET keys == {RowKey(df.rows[i]) : i \in {j \in 1..Len(df.rows) :
                     df.rows[j].title # NaN /\ df.rows[j].artist # NaN}}
        order == SortedKeys(keys)
    IN  [columns |-> <<"title", "artist", "weeks">>,
         rows |-> [i \in 1..Len(order) |->
                     [title |-> order[i][1], artist |-> order[i][2],
                      weeks |-> Join(<<",">>,
                                     Column([rows |-> GroupRows(df, order[i])], "week"))]]]

\* mutant of CountWeeks: the separators are counted, not the pieces
CountSeparators(weeks) == Len(Split(weeks, ",")) - 1

\* lambda x: len(x.split(','))
CountWeeks(weeks) == Len(Split(weeks, ","))

\* tracks_df['week_count'] = tracks_df['weeks'].apply(lambda x: len(x.split(',')))
WeekCountFrame(df) ==
    [columns |-> Append(df.columns, "week_count"),
     rows |-> [i \in 1..Len(df.rows) |->
                 [title |-> df.rows[i].title, artist |-> df.rows[i].artist,
                  weeks |-> df.rows[i].weeks,
                  week_count |-> CountWeeks(df.rows[i].weeks)]]]

-----------------------------------------------------------------------------
(* Inputs *)

\* first_week of the notebook (line 206), a date after a leap day, a date just
\* after New Year, a date strptime accepts without zero padding, and three
\* strings it rejects
FirstWeekInputs ==
    { <<"2","0","1","9","-","0","5","-","1","2">>,
      <<"2","0","2","0","-","0","3","-","0","4">>,
      <<"2","0","2","0","-","0","1","-","0","5">>,
      <<"2","0","1","9","-","5","-","1","2">>,
      <<"2","0","1","9","-","0","2","-","3","0">>,
      <<"2","0","1","9","-","1","3","-","0","1">>,
      <<"2","0","1","9","0","5","1","2">> }

MalformedLastWeek == <<"2","0","1","9","/","0","4","/","2","8">>

\* the dates from MaxInverted days after first_week to MaxDays days before it
LastWeekInputs(fw) ==
    IF strptime(fw).ok
    THEN {strftime(strptime(fw).ord - k) : k \in (0 - MaxInverted)..MaxDays}
         \cup {MalformedLastWeek}
    ELSE {<<"2","0","1","9","-","0","4","-","2","8">>, MalformedLastWeek}

\* a tag outside the chart list
OtherTag == [classes |-> {"site-header"}, text |-> <<"B", "b">>]

Tag(cls, text) == [classes |-> {"chart-list-item", cls}, text |-> text]

\* the tags of one chart item in document order; has names the fields
\* (title, artist, rank) the item carries
ItemTags(it) ==
    (IF "rank" \in it.has THEN <<Tag(RankClass, it.rank)>> ELSE <<>>)
    \o (IF "title" \in it.has THEN <<Tag(TitleClass, it.title)>> ELSE <<>>)
    \o (IF "artist" \in it.has THEN <<Tag(ArtistClass, it.artist)>> ELSE <<>>)

RECURSIVE ItemsTags(_)
ItemsTags(its) == IF its = <<>> THEN <<>> ELSE ItemTags(Head(its)) \o ItemsTags(Tail(its))

\* a page: the site header, then the chart items
PageOf(its) == <<OtherTag>> \o ItemsTags(its)

Fields == {"title", "artist", "rank"}

\* raw tag texts: surrounding blanks are for strip, "a"/"A" differ in case only
TitleTexts == {<<"a">>, <<" ", "A", " ">>}
ArtistTexts == {<<"b">>, <<"B", " ">>}
RankTexts == {<<"1">>, <<" ", "3">>}

FullItem == [title |-> <<" ", "a">>, artist |-> <<"b", " ">>, rank |-> <<"1">>,
             has |-> Fields]
NoArtistItem == [title |-> <<"A">>, artist |-> <<>>, rank |-> <<"1">>,
                 has |-> {"title", "rank"}]

\* the pages the pipeline is run against: no chart item, one complete item,
\* an item without its artist
PipelinePages == {PageOf(<<>>), PageOf(<<FullItem>>), PageOf(<<NoArtistItem>>)}

\* what the server may do with a request: answer with a page, fail the
\* connection, or accept it and never answer
Responses ==
    {[kind |-> "page", page |-> p] : p \in PipelinePages}
    \cup {[kind |-> "error", page |-> <<>>], [kind |-> "silent", page |-> <<>>]}

Unset == [set |-> FALSE, value |-> <<>>]

-----------------------------------------------------------------------------
(* The run of the notebook *)

Init ==
    /\ first_week \in FirstWeekInputs
    /\ last_week \in LastWeekInputs(first_week)
    /\ pc = "start"
    /\ err = "none"
    /\ date_list = <<>>
    /\ url_list = <<>>
    /\ task = <<>>
    /\ net = <<>>
    /\ requests_sent = <<>>
    /\ items = <<>>
    /\ index = 0
    /\ unsorted = {}
    /\ chart_data = <<>>
    /\ pool = "none"
    /\ billboard_responses = Unset
    /\ billboard_df = NoFrame
    /\ tracks_df = NoFrame
    /\ finished = <<>>

\* scrape_billboard, lines 165-174 and the call of pool.imap: a date that does
\* not parse raises ValueError at line 165; otherwise the URLs are generated,
\* the pool is created and every URL is queued
CallScrape ==
    /\ pc = "start"
    /\ \/ /\ ~(strptime(first_week).ok /\ strptime(last_week).ok)
          /\ pc' = "raised"
          /\ err' = "ValueError"
          /\ UNCHANGED <<date_list, url_list, task, net, requests_sent, pool>>
       \/ /\ strptime(first_week).ok /\ strptime(last_week).ok
          /\ LET dates == generate_dates(first_week, NWeeks(first_week, last_week))
                 urls == UrlList(base_url, dates)
             IN  /\ date_list' = dates
                 /\ url_list' = urls
                 /\ task' = [i \in 1..Len(urls) |-> "queued"]
                 /\ net' = [i \in 1..Len(urls) |-> NoResponse]
                 /\ requests_sent' = [i \in 1..Len(urls) |-> 0]
          /\ pool' = "running"
          /\ pc' = "collect"
          /\ UNCHANGED err
    /\ UNCHANGED <<first_week, last_week, items, index, unsorted, chart_data,
                   billboard_responses, billboard_df, tracks_df, finished>>

Running == {i \in 1..Len(task) : task[i] = "running"}

\* the task a free worker takes from the queue: the oldest one still queued
NextTask == CHOOSE i \in 1..Len(task) :
                task[i] = "queued" /\ \A j \in 1..(i - 1) : task[j] # "queued"

\* mutant of WorkerGet: a URL is taken whether or not a worker is free
WorkerGetUnbounded ==
    /\ pool = "running"
    /\ \E i \in 1..Len(task) : task[i] = "queued"
    /\ \E r \in Responses :
          /\ task' = [task EXCEPT ![NextTask] = "running"]
          /\ net' = [net EXCEPT ![NextTask] = r]
          /\ requests_sent' = [requests_sent EXCEPT ![NextTask] = @ + 1]
    /\ UNCHANGED <<first_week, last_week, pc, err, date_list, url_list, items, index,
                   unsorted, chart_data, pool, billboard_responses, billboard_df,
                   tracks_df, finished>>

\* a free worker takes the next URL and calls requests.get(url) (line 130)
WorkerGet ==
    /\ pool = "running"
    /\ \E i \in 1..Len(task) : task[i] = "queued"
    /\ Cardinality(Running) < PoolSize
    /\ \E r \in Responses :
          /\ task' = [task EXCEPT ![NextTask] = "running"]
          /\ net' = [net EXCEPT ![NextTask] = r]
          /\ requests_sent' = [requests_sent EXCEPT ![NextTask] = @ + 1]
    /\ UNCHANGED <<first_week, last_week, pc, err, date_list, url_list, items, index,
                   unsorted, chart_data, pool, billboard_responses, billboard_df,
                   tracks_df, finished>>

\* the worker's result reaches the iterator
Deliver(i, obj) ==
    LET s == IMapSet(items, index, unsorted, i - 1, obj)
    IN  /\ items' = s.items
        /\ index' = s.index
        /\ unsorted' = s.unsorted
        /\ task' = [task EXCEPT ![i] = "done"]
        /\ finished' = Append(finished, i)
        /\ UNCHANGED <<first_week, last_week, pc, err, date_list, url_list, net,
                       requests_sent, chart_data, pool, billboard_responses,
                       billboard_df, tracks_df>>

\* requests.get returned: the page is parsed and the lists are the result
WorkerReturn(i) ==
    /\ pool = "running"
    /\ task[i] = "running"
    /\ net[i].kind = "page"
    /\ Deliver(i, Success(scrape_week(url_list[i], net[i].page)))

\* requests.get raised: the exception is the task's result
WorkerRaise(i) ==
    /\ pool = "running"
    /\ task[i] = "running"
    /\ net[i].kind = "error"
    /\ Deliver(i, Failure("ConnectionError"))

\* mutant of MainNext: a failed result is dropped and the loop goes on
MainNextSkipsFailure ==
    /\ pc = "collect"
    /\ items # <<>>
    /\ items' = Tail(items)
    /\ chart_data' = IF Head(items).ok THEN Append(chart_data, Head(items).value)
                     ELSE chart_data
    /\ UNCHANGED <<first_week, last_week, pc, err, date_list, url_list, task, net,
                   requests_sent, index, unsorted, pool, billboard_responses,
                   billboard_df, tracks_df, finished>>

\* list(...) takes the next result from the iterator: a value is appended, an
\* exception is raised in the caller and leaves scrape_billboard
MainNext ==
    /\ pc = "collect"
    /\ items # <<>>
    /\ items' = Tail(items)
    /\ \/ /\ Head(items).ok
          /\ chart_data' = Append(chart_data, Head(items).value)
          /\ UNCHANGED <<pc, err>>
       \/ /\ ~Head(items).ok
          /\ pc' = "raised"
          /\ err' = Head(items).exc
          /\ UNCHANGED chart_data
    /\ UNCHANGED <<first_week, last_week, date_list, url_list, task, net, requests_sent,
                   index, unsorted, pool, billboard_responses, billboard_df,
                   tracks_df, finished>>

\* the iterator is exhausted: pool.terminate(), pool.join(), return chart_data
ReturnChartData ==
    /\ pc = "collect"
    /\ items = <<>>
    /\ index = Len(url_list)
    /\ pool' = "terminated"
    /\ billboard_responses' = [set |-> TRUE, value |-> chart_data]
    /\ pc' = "returned"
    /\ UNCHANGED <<first_week, last_week, err, date_list, url_list, task, net,
                   requests_sent, items, index, unsorted, chart_data,
                   billboard_df, tracks_df, finished>>

\* billboard_df = pd.DataFrame(billboard_responses, columns = [...])
MakeDataFrame ==
    /\ pc = "returned"
    /\ billboard_df' = MakeFrame(billboard_responses.value)
    /\ pc' = "framed"
    /\ UNCHANGED <<first_week, last_week, err, date_list, url_list, task, net,
                   requests_sent, items, index, unsorted, chart_data, pool,
                   billboard_responses, tracks_df, finished>>

\* tracks_df = pd.DataFrame() and the four column assignments
Flatten ==
    /\ pc = "framed"
    /\ LET f == FlattenFrame(billboard_df)
       IN  /\ tracks_df' = f.df
           /\ \/ /\ f.ok
                 /\ pc' = "flattened"
                 /\ UNCHANGED err
              \/ /\ ~f.ok
                 /\ pc' = "raised"
                 /\ err' = "ValueError"
    /\ UNCHANGED <<first_week, last_week, date_list, url_list, task, net, requests_sent,
                   items, index, unsorted, chart_data, pool,
                   billboard_responses, billboard_df, finished>>

\* the groupby cell
GroupBy ==
    /\ pc = "flattened"
    /\ tracks_df' = GroupByFrame(tracks_df)
    /\ pc' = "grouped"
    /\ UNCHANGED <<first_week, last_week, err, date_list, url_list, task, net,
                   requests_sent, items, index, unsorted, chart_data, pool,
                   billboard_responses, billboard_df, finished>>

\* the week_count cell; the table is then pickled as it is
WeekCount ==
    /\ pc = "grouped"
    /\ tracks_df' = WeekCountFrame(tracks_df)
    /\ pc' = "saved"
    /\ UNCHANGED <<first_week, last_week, err, date_list, url_list, task, net,
                   requests_sent, items, index, unsorted, chart_data, pool,
                   billboard_responses, billboard_df, finished>>

Next ==
    \/ CallScrape
    \/ WorkerGet
    \/ \E i \in 1..Len(task) : WorkerReturn(i)
    \/ \E i \in 1..Len(task) : WorkerRaise(i)
    \/ MainNext
    \/ ReturnChartData
    \/ MakeDataFrame
    \/ Flatten
    \/ GroupBy
    \/ WeekCount

Spec == Init /\ [][Next]_vars

-----------------------------------------------------------------------------
(* The aggregation cells on their own, run on any list of scraped weeks *)

\* the chart items: each carries at least one of its three fields (a field the
\* item lacks has no text)
AllItems ==
    UNION {{[title |-> t, artist |-> a, rank |-> r, has |-> h] :
               t \in (IF "title" \in h THEN TitleTexts ELSE {<<>>}),
               a \in (IF "artist" \in h THEN ArtistTexts ELSE {<<>>}),
               r \in (IF "rank" \in h THEN RankTexts ELSE {<<>>})} :
           h \in (SUBSET Fields) \ {{}}}

\* the number of fields the chart items lack in all
MissingIn(its) ==
    Cardinality({c \in (1..Len(its)) \X Fields : c[2] \notin its[c[1]].has})

\* the chart items that week i shows, w[j] being the week of item j
ItemsOfWeek(its, w, i) ==
    LET InWeek(j) == w[j] = i
        js == SelectSeq([j \in 1..Len(its) |-> j], InWeek)
    IN  [x \in 1..Len(js) |-> its[js[x]]]

\* the page lists of n weeks that show k chart items in all, spread over the
\* weeks in order, lacking at most MaxMissing fields
PageLists(n, k) ==
    {[i \in 1..n |-> PageOf(ItemsOfWeek(p[1], p[2], i))] :
        p \in {q \in [1..k -> AllItems] \X [1..k -> 1..n] :
                 /\ \A j \in 1..(k - 1) : q[2][j] <= q[2][j + 1]
                 /\ MissingIn(q[1]) <= MaxMissing}}

\* the state in which scrape_billboard has returned the parsed pages of the
\* two weeks from 2019-05-12 back to 2019-04-28
InitAgg ==
    /\ first_week = <<"2","0","1","9","-","0","5","-","1","2">>
    /\ last_week = <<"2","0","1","9","-","0","4","-","2","8">>
    /\ pc = "returned"
    /\ err = "none"
    /\ date_list = generate_dates(first_week, NWeeks(first_week, last_week))
    /\ url_list = UrlList(base_url, date_list)
    /\ task = [i \in 1..Len(url_list) |-> "done"]
    /\ \E k \in 0..MaxItems :
          net \in {[i \in 1..Len(url_list) |-> [kind |-> "page", page |-> pages[i]]] :
                     pages \in PageLists(Len(url_list), k)}
    /\ requests_sent = [i \in 1..Len(url_list) |-> 1]
    /\ items = <<>>
    /\ index = Len(url_list)
    /\ unsorted = {}
    /\ chart_data = [i \in 1..Len(url_list) |-> scrape_week(url_list[i], net[i].page)]
    /\ pool = "terminated"
    /\ billboard_responses = [set |-> TRUE, value |-> chart_data]
    /\ billboard_df = NoFrame
    /\ tracks_df = NoFrame
    /\ finished = [i \in 1..Len(url_list) |-> i]

NextAgg ==
    \/ MakeDataFrame
    \/ Flatten
    \/ GroupBy
    \/ WeekCount

SpecAgg == InitAgg /\ [][NextAgg]_vars

-----------------------------------------------------------------------------
(* Properties of the fan-out and of the date generation *)

\* C1: the results reach the caller in the order the URLs were submitted, one
\* per URL, whatever the order in which the fetches end: result i is what
\* scrape_week makes of the page served for URL i.
C1_ResultsInSubmissionOrder ==
    /\ \A i \in 1..Len(chart_data) :
          /\ net[i].kind = "page"
          /\ chart_data[i] = scrape_week(url_list[i], net[i].page)
    /\ billboard_responses.set =>
          /\ Len(billboard_responses.value) = Len(url_list)
          /\ \A i \in 1..Len(url_list) :
                billboard_responses.value[i] = scrape_week(url_list[i], net[i].page)

\* scrape_billboard has returned two different results whose fetches ended in
\* another order than they were submitted
C1_Witness ==
    /\ pc = "returned"
    /\ Len(url_list) >= 2
    /\ finished # [i \in 1..Len(finished) |-> i]
    /\ billboard_responses.value[1] # billboard_responses.value[2]
    /\ billboard_responses.value[1][1] # <<>>

\* C2: once the fetch of a week has failed, scrape_billboard returns no list,
\* the run can only have ended by raising that failure, the failed week is
\* neither skipped (the collected list never grows past it) nor requested
\* again, and no table is produced.
C2_FailedFetchAbortsBatch ==
    \A i \in 1..Len(net) :
        net[i].kind = "error" =>
            /\ ~billboard_responses.set
            /\ pc \in {"collect", "raised"}
            /\ pc = "raised" => err = "ConnectionError"
            /\ Len(chart_data) < i
            /\ requests_sent[i] = 1
            /\ billboard_df = NoFrame
            /\ tracks_df = NoFrame

\* the failure of the second week has left scrape_billboard after the first
\* week had been collected
C2_Witness ==
    /\ pc = "raised"
    /\ err = "ConnectionError"
    /\ Len(chart_data) = 1
    /\ net[2].kind = "error"

BothDatesParse == strptime(first_week).ok /\ strptime(last_week).ok

DaysApart == strptime(first_week).ord - strptime(last_week).ord

\* both dates parsed, first_week is the later one, and the dates were generated
DatesGenerated == pc # "start" /\ BothDatesParse /\ DaysApart > 0

\* first_week is written as YYYY-MM-DD with zero padding
ZeroPadded(s) == Len(s) = 10 /\ \A i \in (1..10) \ {5, 8} : IsDigit(s[i])

\* every generated string is a date of ten characters and each is seven days
\* before the one in front of it
SevenDaysApart ==
    /\ \A i \in 1..Len(date_list) :
          Len(date_list[i]) = 10 /\ strptime(date_list[i]).ok
    /\ \A i \in 2..Len(date_list) :
          strptime(date_list[i]).ord = strptime(date_list[i - 1]).ord - 7

\* C3 as stated: for zero-padded dates with start after end, ceil(days / 7)
\* date strings are generated, the first equal to start, each seven days
\* before the previous.
C3_CeilingOfWeeks ==
    (DatesGenerated /\ ZeroPadded(first_week) /\ ZeroPadded(last_week)) =>
        /\ Len(date_list) = (DaysApart + 6) \div 7
        /\ date_list[1] = first_week
        /\ SevenDaysApart

\* C3 amended: the number n of date strings is days / 7 rounded to the nearest
\* integer, that is |7n - days| <= 3 (none for a gap of one to three days);
\* the first denotes the start date, and is the start string itself when that
\* is zero padded; each is seven days before the previous.
C3_NearestWeeks ==
    DatesGenerated =>
        LET n == Len(date_list) IN
        /\ 7 * n - 3 <= DaysApart
        /\ DaysApart <= 7 * n + 3
        /\ n >= 1 => /\ strptime(date_list[1]).ord = strptime(first_week).ord
                     /\ ZeroPadded(first_week) => date_list[1] = first_week
        /\ SevenDaysApart

\* two weeks were generated for a gap of fifteen days, across the leap day
C3_Witness ==
    /\ DatesGenerated
    /\ DaysApart = 15
    /\ Len(date_list) = 2
    /\ first_week = <<"2","0","2","0","-","0","3","-","0","4">>
    /\ date_list[2] = <<"2","0","2","0","-","0","2","-","2","6">>

\* C4: a start date that is not after the end date, or a date string that does
\* not parse, ends the run with an error before any request is sent, and no
\* list is returned.
C4_InvalidRangeRejected ==
    (pc # "start" /\ (~BothDatesParse \/ DaysApart <= 0)) =>
        /\ pc = "raised"
        /\ err = "ValueError"
        /\ \A i \in 1..Len(requests_sent) : requests_sent[i] = 0
        /\ ~billboard_responses.set

\* C5: in every result of scrape_week the lists of titles, artists, ranks and
\* weeks have the same length.
C5_ListsOfEqualLength ==
    \A i \in 1..Len(chart_data) :
        /\ Len(chart_data[i][1]) = Len(chart_data[i][2])
        /\ Len(chart_data[i][1]) = Len(chart_data[i][3])
        /\ Len(chart_data[i][1]) = Len(chart_data[i][4])

\* C10: a fetch that a worker has begun never blocks for good: it can always
\* end, by returning its lists or by raising an error.
C10_EveryFetchCanEnd ==
    \A i \in 1..Len(task) :
        task[i] = "running" => ENABLED (WorkerReturn(i) \/ WorkerRaise(i))

-----------------------------------------------------------------------------
(* Properties of the aggregation *)

Aggregated == pc \in {"grouped", "saved"}

\* the flattened table the grouping cell was run on
FlatRows == FlattenFrame(billboard_df).df.rows

\* the flattened rows of one (title, artist) pair
RowsOfPair(t, a) ==
    {j \in 1..Len(FlatRows) : FlatRows[j].title = t /\ FlatRows[j].artist = a}

\* C6: the aggregated table has exactly one row for every (title, artist) pair
\* of the flattened table, pairs being equal only when both strings are equal
\* character by character.
C6_OneRowPerPair ==
    Aggregated =>
        LET rows == tracks_df.rows IN
        /\ \A i, j \in 1..Len(rows) :
              (rows[i].title = rows[j].title /\ rows[i].artist = rows[j].artist) => i = j
        /\ {<<rows[i].title, rows[i].artist>> : i \in 1..Len(rows)}
             = {<<FlatRows[j].title, FlatRows[j].artist>> : j \in 1..Len(FlatRows)}

\* the titles "A" and "a" of one artist have a row each
C6_Witness ==
    /\ Aggregated
    /\ Len(tracks_df.rows) = 2
    /\ tracks_df.rows[1].title = <<"A">>
    /\ tracks_df.rows[2].title = <<"a">>
    /\ tracks_df.rows[1].artist = tracks_df.rows[2].artist

\* C7: week_count is the number of week identifiers of the row, which is the
\* number of flattened rows of its pair: weeks holds that many identifiers of
\* ten characters with a comma between them, and it is never zero.
C7_CountIsNumberOfWeeks ==
    pc = "saved" =>
        \A i \in 1..Len(tracks_df.rows) :
            LET row == tracks_df.rows[i] IN
            /\ row.week_count = Cardinality(RowsOfPair(row.title, row.artist))
            /\ Len(row.weeks) = 11 * row.week_count - 1
            /\ row.week_count >= 1

\* a track with two appearances
C7_Witness ==
    /\ pc = "saved"
    /\ \E i \in 1..Len(tracks_df.rows) : tracks_df.rows[i].week_count = 2

\* every scraped week has as many artists, ranks and weeks as titles
AllAligned(R) ==
    \A i \in 1..Len(R) :
        Len(R[i][2]) = Len(R[i][1]) /\ Len(R[i][3]) = Len(R[i][1])
        /\ Len(R[i][4]) = Len(R[i][1])

\* the places (week, position) at which a pair occurs in the scraped weeks
PlacesOfPair(R, t, a) ==
    {c \in (1..Len(R)) \X (1..MaxItems) :
        /\ c[2] <= Len(R[c[1]][1])
        /\ R[c[1]][1][c[2]] = t
        /\ R[c[1]][2][c[2]] = a}

\* C8: a pair that occurs in exactly two weeks, week i before week j in the
\* list, has one row, with week_count 2 and the week identifier of i, a comma
\* and the week identifier of j as its weeks, whatever the ranks.
C8_TwoWeeksJoinedInOrder ==
    (pc = "saved" /\ AllAligned(billboard_responses.value)) =>
        LET R == billboard_responses.value IN
        \A i, j \in 1..Len(R) : \A p, q \in 1..MaxItems :
            ( /\ i < j
              /\ p <= Len(R[i][1])
              /\ q <= Len(R[j][1])
              /\ PlacesOfPair(R, R[i][1][p], R[i][2][p]) = {<<i, p>>, <<j, q>>} )
            => \E k \in 1..Len(tracks_df.rows) :
                  /\ tracks_df.rows[k].title = R[i][1][p]
                  /\ tracks_df.rows[k].artist = R[i][2][p]
                  /\ tracks_df.rows[k].weeks
                       = LastChars(url_list[i], 10) \o <<",">> \o LastChars(url_list[j], 10)
                  /\ tracks_df.rows[k].week_count = 2

\* one track, scraped in the week of first_week and in the week before, with
\* different ranks
C8_Witness ==
    /\ pc = "saved"
    /\ Len(billboard_responses.value) = 2
    /\ AllAligned(billboard_responses.value)
    /\ billboard_responses.value[1][3] # billboard_responses.value[2][3]
    /\ Len(tracks_df.rows) = 1
    /\ tracks_df.rows[1].week_count = 2
    /\ tracks_df.rows[1].weeks
         = <<"2","0","1","9","-","0","5","-","1","2",",",
             "2","0","1","9","-","0","5","-","0","5">>

EmptyRecord == << <<>>, <<>>, <<>>, <<>> >>

\* the page has no tag of the three chart classes
NoChartItems(page) ==
    \A k \in 1..Len(page) :
        page[k].classes \cap {TitleClass, ArtistClass, RankClass} = {}

WithoutEmpty(R) == LET Kept(r) == r # EmptyRecord IN SelectSeq(R, Kept)

\* the cells from the DataFrame to week_count, run on a list of scraped weeks
Aggregate(R) ==
    LET f == FlattenFrame(MakeFrame(R))
    IN  [ok |-> f.ok,
         df |-> IF f.ok THEN WeekCountFrame(GroupByFrame(f.df)) ELSE NoFrame]

\* C9: a page without chart items gives four empty lists, it does not make the
\* collection raise, and the aggregate is the one of the list without the
\* empty weeks (the flattening fails for the one exactly when it fails for
\* the other).
C9_EmptyWeekIsHarmless ==
    /\ \A i \in 1..Len(chart_data) :
          NoChartItems(net[i].page) => chart_data[i] = EmptyRecord
    /\ (pc = "raised" /\ err = "ConnectionError") =>
          \E i \in 1..Len(net) : net[i].kind = "error"
    /\ pc = "saved" =>
          /\ Aggregate(WithoutEmpty(billboard_responses.value)).ok
          /\ tracks_df = Aggregate(WithoutEmpty(billboard_responses.value)).df
    /\ (pc = "raised" /\ billboard_responses.set) =>
          ~Aggregate(WithoutEmpty(billboard_responses.value)).ok

\* an empty week between two weeks with a chart item, aggregated
C9_Witness ==
    /\ pc = "saved"
    /\ Len(chart_data) = 3
    /\ chart_data[2] = EmptyRecord
    /\ NoChartItems(net[2].page)
    /\ Len(tracks_df.rows) = 1
    /\ tracks_df.rows[1].week_count = 2

\* the flattened table as a frame
FlatRowsFrame == FlattenFrame(billboard_df).df

\* row i of the aggregated table comes before row j in the order of Python's
\* tuples of str: by title, then by artist, code point by code point
RowBefore(ri, rj) ==
    \/ StrLess(ri.title, rj.title)
    \/ ri.title = rj.title /\ StrLess(ri.artist, rj.artist)

\* C11: the aggregated table is a function of the list of scraped weeks (the
\* cells run on the same list give the table again, rows, weeks, counts and
\* row order), and its rows stand in strictly ascending order of (title,
\* artist), wherever the pairs were first met in the flattened rows.
C11_DeterministicAndSorted ==
    /\ Aggregated =>
          \A i, j \in 1..Len(tracks_df.rows) :
              i < j => RowBefore(tracks_df.rows[i], tracks_df.rows[j])
    /\ pc = "grouped" => tracks_df = GroupByFrame(FlatRowsFrame)
    /\ pc = "saved" =>
          /\ Aggregate(billboard_responses.value).ok
          /\ tracks_df = Aggregate(billboard_responses.value).df

\* the pair met first in the flattened rows is the second row of the table
C11_Witness ==
    /\ pc = "saved"
    /\ Len(tracks_df.rows) = 2
    /\ Len(FlatRows) >= 2
    /\ FlatRows[1].title = tracks_df.rows[2].title
    /\ FlatRows[1].artist = tracks_df.rows[2].artist
    /\ FlatRows[1].title = <<"a">>
    /\ tracks_df.rows[1].title = <<"A">>

-----------------------------------------------------------------------------
(* Properties of the pool *)

\* no more fetches are in flight than the pool has workers, a URL that has
\* left the queue was requested once and one still queued was not requested,
\* and a returned batch has requested every URL once
PoolWithinBounds ==
    /\ Cardinality(Running) <= PoolSize
    /\ Len(requests_sent) = Len(task)
    /\ \A i \in 1..Len(task) :
          requests_sent[i] = IF task[i] = "queued" THEN 0 ELSE 1
    /\ billboard_responses.set =>
          /\ Len(task) = Len(url_list)
          /\ \A i \in 1..Len(url_list) : requests_sent[i] = 1

\* a URL leaves the queue only for a free worker, a fetch in flight stays with
\* its worker until it has ended, and a fetch that has ended is not begun again
FetchRunsToCompletion ==
    \A i \in 1..Len(task) :
        /\ (task[i] = "queued" /\ task'[i] # "queued") =>
              (task'[i] = "running" /\ Cardinality(Running) < PoolSize)
        /\ task[i] = "running" => task'[i] \in {"running", "done"}
        /\ task[i] = "done" => task'[i] = "done"

\* C12: during the fan-out at most PoolSize invocations of scrape_week are in
\* flight, each worker runs its fetch to its end before it takes the next URL,
\* and every URL is requested exactly once, never again and never by two
\* workers.
C12_BoundedPoolSingleFetch == [](PoolWithinBounds) /\ [][FetchRunsToCompletion]_vars

\* every worker is busy with a fetch that was requested once, and a URL still
\* waits in the queue
C12_Witness ==
    /\ Cardinality(Running) = PoolSize
    /\ \E i \in 1..Len(task) : task[i] = "queued"
    /\ \A i \in Running : requests_sent[i] = 1

-----------------------------------------------------------------------------
(* The URLs that are requested *)

\* the URLs were generated from two dates that parse
UrlsGenerated == pc # "start" /\ BothDatesParse

\* C13: the URL list has n entries, n being the days between the two dates
\* divided by 7 and rounded to the nearest integer (none when that is not
\* positive); entry i is the base URL followed by the date 7 * (i - 1) days
\* before first_week; requests go to these URLs only, to each of them once
\* when the batch returns; last_week itself is never among them, and
\* 2019-05-12 with 2019-04-28 gives the two weeks 2019-05-12 and 2019-05-05.
C13_NearestNumberOfUrls ==
    UrlsGenerated =>
        LET n == Len(url_list) IN
        /\ DaysApart >= 4 => (7 * n - 3 <= DaysApart /\ DaysApart <= 7 * n + 3)
        /\ DaysApart <= 3 => n = 0
        /\ \A i \in 1..n :
              url_list[i] = base_url \o strftime(strptime(first_week).ord - 7 * (i - 1))
        /\ \A i \in 1..n :
              strptime(first_week).ord - 7 * (i - 1) > strptime(last_week).ord
        /\ Len(requests_sent) = n
        /\ billboard_responses.set => \A i \in 1..n : requests_sent[i] = 1
        /\ ( /\ first_week = <<"2","0","1","9","-","0","5","-","1","2">>
             /\ last_week = <<"2","0","1","9","-","0","4","-","2","8">> )
           => date_list = << <<"2","0","1","9","-","0","5","-","1","2">>,
                             <<"2","0","1","9","-","0","5","-","0","5">> >>

\* the batch for 2019-05-12 and 2019-04-28 has returned after two requests,
\* the second for the week 2019-05-05
C13_Witness ==
    /\ pc = "returned"
    /\ first_week = <<"2","0","1","9","-","0","5","-","1","2">>
    /\ last_week = <<"2","0","1","9","-","0","4","-","2","8">>
    /\ Len(url_list) = 2
    /\ requests_sent = <<1, 1>>
    /\ url_list[2] = base_url \o <<"2","0","1","9","-","0","5","-","0","5">>

-----------------------------------------------------------------------------
(* The rows of the flattened table *)

\* the row is the chart entry at position p of the scraped week i
IsEntryOf(row, R, i, p) ==
    /\ p <= Len(R[i][1]) /\ p <= Len(R[i][2])
    /\ p <= Len(R[i][3]) /\ p <= Len(R[i][4])
    /\ row.title = R[i][1][p]
    /\ row.artist = R[i][2][p]
    /\ row.rank = R[i][3][p]
    /\ row.week = R[i][4][p]
    /\ row.week = LastChars(url_list[i], 10)

\* C14: when the flattening cell has run without an error, every row of the
\* flattened table is one chart entry: its title, artist, rank and week stand
\* at one position of one scraped week, whose URL ends in that week.
C14_RowsAreChartEntries ==
    pc = "flattened" =>
        LET R == billboard_responses.value IN
        \A k \in 1..Len(tracks_df.rows) :
            \E i \in 1..Len(R) : \E p \in 1..MaxItems :
                IsEntryOf(tracks_df.rows[k], R, i, p)

====
